---------------------------- MODULE Spec2Model ----------------------------
(***************************************************************************)
(* A model of script/multi-arch-tracking/generate-table.py: the            *)
(* architecture support table generator.  Python strings are sequences of  *)
(* one-character strings, so that split, startswith, "in", lower, sorted   *)
(* and the format padding are computed as the code computes them.          *)
(***************************************************************************)
EXTENDS Integers, Sequences, FiniteSets, TLC

VARIABLES
    pc,          \* the position in main, or "call" / "return" around one function
    args,        \* the command line and the environment, or the function's arguments
    ret,         \* the function's result
    git_calls,   \* the git commands run so far
    file_paths,  \* main's file_paths / files
    idx,         \* the number of files the loop has processed
    components,  \* main's components dict
    stderr,      \* the messages printed to stderr
    stdout,      \* the text printed to stdout
    outfile,     \* the text written to --output
    exitcode     \* the exit status, -1 while running

vars == <<pc, args, ret, git_calls, file_paths, idx, components, stderr, stdout, outfile,
          exitcode>>

mainvars == <<git_calls, file_paths, idx, components, stderr, stdout, outfile, exitcode>>

(***************************************************************************)
(* Python values and string primitives                                     *)
(***************************************************************************)

\* Python's None (no character string equals it).
None == <<"<None>">>

\* Truth value of an Optional[str] / list: None and the empty value are false.
Truthy(v) == v # None /\ v # <<>>

\* dict.get(key, default) on a record standing for a dict.
Get(d, key, default) == IF key \in DOMAIN d THEN d[key] ELSE default

\* The printable ASCII characters in code-point order (the grave accent, which
\* no input uses, is left out).
Alphabet ==
    << " ", "!", "\"", "#", "$", "%", "&", "'", "(", ")", "*", "+", ",", "-", ".", "/",
       "0", "1", "2", "3", "4", "5", "6", "7", "8", "9", ":", ";", "<", "=", ">", "?",
       "@", "A", "B", "C", "D", "E", "F", "G", "H", "I", "J", "K", "L", "M", "N", "O",
       "P", "Q", "R", "S", "T", "U", "V", "W", "X", "Y", "Z", "[", "\\", "]", "^", "_",
       "a", "b", "c", "d", "e", "f", "g", "h", "i", "j", "k", "l", "m", "n", "o",
       "p", "q", "r", "s", "t", "u", "v", "w", "x", "y", "z", "{", "|", "}", "~" >>

\* Position of a character in code-point order.
Ord(c) == CHOOSE i \in DOMAIN Alphabet : Alphabet[i] = c

UpperA == Ord("A")

UpperZ == Ord("Z")

CaseShift == Ord("a") - Ord("A")

\* str.lower() on one character, then on a string.
LowerChar(c) ==
    IF Ord(c) >= UpperA /\ Ord(c) <= UpperZ THEN Alphabet[Ord(c) + CaseShift] ELSE c

lower(s) == [i \in DOMAIN s |-> LowerChar(s[i])]

\* s.startswith(p)
startswith(s, p) == Len(p) <= Len(s) /\ SubSeq(s, 1, Len(p)) = p

\* s.endswith(p)
endswith(s, p) == Len(p) <= Len(s) /\ SubSeq(s, Len(s) - Len(p) + 1, Len(s)) = p

\* The positions at which sub occurs in s.
Occurrences(s, sub) ==
    {i \in 1..(Len(s) - Len(sub) + 1) : SubSeq(s, i, i + Len(sub) - 1) = sub}

\* sub in s
Contains(s, sub) == Occurrences(s, sub) # {}

\* x in list
InList(x, list) == \E i \in DOMAIN list : list[i] = x

Min(S) == CHOOSE m \in S : \A n \in S : m <= n

Max(S) == CHOOSE m \in S : \A n \in S : m >= n

\* s.split(sep) for a non-empty separator: the pieces between the
\* left-to-right non-overlapping occurrences of sep.
RECURSIVE split(_, _)
split(s, sep) ==
    IF ~Contains(s, sep) THEN <<s>>
    ELSE LET i == Min(Occurrences(s, sep))
         IN  <<SubSeq(s, 1, i - 1)>> \o split(SubSeq(s, i + Len(sep), Len(s)), sep)

\* list[-1]
Last(list) == list[Len(list)]

\* sep.join(parts)
RECURSIVE join(_, _)
join(sep, parts) ==
    IF parts = <<>> THEN <<>>
    ELSE IF Len(parts) = 1 THEN parts[1]
    ELSE parts[1] \o sep \o join(sep, Tail(parts))

\* c * n
Repeat(c, n) == [i \in 1..n |-> c]

\* f"{s:<{w}}" and s.ljust(w): pad on the right to width w.
ljust(s, w) == IF Len(s) >= w THEN s ELSE s \o Repeat(" ", w - Len(s))

\* f"{s:^{w}}": centre in width w, the odd space going to the right.
center(s, w) ==
    IF Len(s) >= w THEN s
    ELSE LET pad == w - Len(s)
             left == pad \div 2
         IN  Repeat(" ", left) \o s \o Repeat(" ", pad - left)

\* a < b in Python's string order (code points, a proper prefix first).
RECURSIVE StrLess(_, _)
StrLess(a, b) ==
    IF b = <<>> THEN FALSE
    ELSE IF a = <<>> THEN TRUE
    ELSE IF a[1] # b[1] THEN Ord(a[1]) < Ord(b[1])
    ELSE StrLess(Tail(a), Tail(b))

\* sorted(S) for a set of strings.
RECURSIVE sorted(_)
sorted(S) ==
    IF S = {} THEN <<>>
    ELSE LET m == CHOOSE x \in S : \A y \in S \ {x} : StrLess(x, y)
         IN  <<m>> \o sorted(S \ {m})

\* The sequences over the pool of length at most n.
RECURSIVE DistinctSeqs(_, _)
DistinctSeqs(pool, n) ==
    IF n = 0 THEN {<<>>}
    ELSE LET shorter == DistinctSeqs(pool, n - 1)
         IN  shorter \cup {Append(q, x) : q \in shorter, x \in pool}

NoRepeat(q) == \A i, j \in DOMAIN q : i # j => q[i] # q[j]

\* The lists over the pool of length at most n that name no element twice.
Lists(pool, n) == {q \in DistinctSeqs(pool, n) : NoRepeat(q)}

(***************************************************************************)
(* Architectures and output formats                                        *)
(***************************************************************************)

amd64 == <<"a","m","d","6","4">>

arm64 == <<"a","r","m","6","4">>

ppc64le == <<"p","p","c","6","4","l","e">>

s390x == <<"s","3","9","0","x">>

\* generate_table's fixed columns.
arch_columns == <<amd64, arm64, ppc64le, s390x>>

\* argparse's choices for --format.
Formats == {"markdown", "csv", "text", "jira"}

(***************************************************************************)
(* Rules engine                                                            *)
(***************************************************************************)

XXX == <<"X","X","X">>

\* extract_issue_key(issue_url)
extract_issue_key(issue_url) ==
    IF ~Truthy(issue_url) THEN XXX
    ELSE IF Contains(issue_url, <<"/","b","r","o","w","s","e","/">>) THEN Last(split(issue_url, <<"/","b","r","o","w","s","e","/">>))
    ELSE IF Contains(issue_url, <<"-">>) /\ ~Contains(issue_url, <<"/">>) THEN issue_url
    ELSE XXX

\* A dict in insertion order is a list of [key, value] items; dict.get(k, []).
DictGet(d, k, default) ==
    IF \E i \in DOMAIN d : d[i].key = k
    THEN d[CHOOSE i \in DOMAIN d : d[i].key = k].value
    ELSE default

\* detect_accelerator(component_name, accelerator_rules): the first key, in
\* the dict's order, that occurs in the lower-cased name.
detect_accelerator(component_name, accelerator_rules) ==
    LET component_lower == lower(component_name)
        hits == {i \in DOMAIN accelerator_rules :
                    Contains(component_lower, accelerator_rules[i].key)}
    IN  IF hits = {} THEN None ELSE accelerator_rules[Min(hits)].key

\* None where the code returns Optional[dict] (no record has this key).
NoneDict == [none |-> TRUE]

\* The matching test of get_exception_for_arch's loop body.
ExceptionMatches(exception, component_name, arch) ==
    /\ Get(exception, "component", None) = component_name
    /\ InList(arch, Get(exception, "architectures", <<>>))

\* get_exception_for_arch(component_name, arch, config): the first match.
get_exception_for_arch(component_name, arch, config) ==
    LET exceptions == Get(config, "exception", <<>>)
        hits == {i \in DOMAIN exceptions :
                    ExceptionMatches(exceptions[i], component_name, arch)}
    IN  IF hits = {} THEN NoneDict ELSE exceptions[Min(hits)]

\* is_accelerator_incompatible(component_name, arch, config)
is_accelerator_incompatible(component_name, arch, config) ==
    LET accelerator_rules == Get(config, "accelerator_incompatibility_rules", <<>>)
        detected_accelerator == detect_accelerator(component_name, accelerator_rules)
    IN  /\ Truthy(detected_accelerator)
        /\ InList(arch, DictGet(accelerator_rules, detected_accelerator, <<>>))

\* The exception branch of get_cell_value: the cell for a matched record.
FormatIssue(exception, output_format) ==
    LET issue_url == Get(exception, "issue", <<>>)
        issue_key == extract_issue_key(issue_url)
        linked == Truthy(issue_url) /\ issue_key # XXX
    IN  IF output_format = "markdown" /\ linked
        THEN <<"[">> \o issue_key \o <<"]","(">> \o issue_url \o <<")">>
        ELSE IF output_format = "jira" /\ linked
        THEN <<"[">> \o issue_key \o <<"|">> \o issue_url \o <<"]">>
        ELSE IF output_format = "csv" /\ linked
        THEN <<"=","H","Y","P","E","R","L","I","N","K","(","\"">> \o issue_url \o <<"\"",",","\"">> \o issue_key \o <<"\"",")">>
        ELSE issue_key

get_cell_value_acc_first(component_name, arch, built_archs, config, output_format) ==
    LET exception == get_exception_for_arch(component_name, arch, config)
    IN  IF arch \in built_archs THEN <<"Y">>
        ELSE IF is_accelerator_incompatible(component_name, arch, config) THEN <<"N","/","A">>
        ELSE IF exception # NoneDict THEN FormatIssue(exception, output_format)
        ELSE <<>>

\* get_cell_value(component_name, arch, built_archs, config, output_format)
get_cell_value(component_name, arch, built_archs, config, output_format) ==
    LET exception == get_exception_for_arch(component_name, arch, config)
    IN  IF arch \in built_archs THEN <<"Y">>
        ELSE IF exception # NoneDict THEN FormatIssue(exception, output_format)
        ELSE IF is_accelerator_incompatible(component_name, arch, config) THEN <<"N","/","A">>
        ELSE <<>>

(***************************************************************************)
(* Inputs of the rules engine                                              *)
(***************************************************************************)

MaxRules == 2

MaxExceptions == 2

\* Component names: one accelerator keyword (with an upper-case letter), two
\* keywords, none.
CellNames == {<<"C","u","d","a","-","a","p","p">>, <<"r","o","c","m","-","c","u","d","a">>, <<"a","p","p">>}

\* Items of accelerator_incompatibility_rules.
RulePool ==
    { [key |-> <<"c","u","d","a">>, value |-> <<arm64, ppc64le>>],
      [key |-> <<"r","o","c","m">>, value |-> <<s390x>>],
      [key |-> <<"R","O","C","M">>, value |-> <<arm64>>] }

\* [[exception]] records: a browse URL, no issue, an empty issue, a browse
\* URL without a key, a bare key, a URL without /browse/.
ExceptionPool ==
    { [component |-> <<"C","u","d","a","-","a","p","p">>, architectures |-> <<arm64, s390x>>,
       issue |-> <<"h","t","t","p",":","/","/","j","/","b","r","o","w","s","e","/","A","-","1">>],
      [component |-> <<"a","p","p">>, architectures |-> <<arm64>>],
      [component |-> <<"a","p","p">>, architectures |-> <<s390x>>, issue |-> <<>>],
      [component |-> <<"C","u","d","a","-","a","p","p">>, architectures |-> <<arm64>>,
       issue |-> <<"h","t","t","p",":","/","/","j","/","b","r","o","w","s","e","/">>],
      [component |-> <<"r","o","c","m","-","c","u","d","a">>, architectures |-> <<arm64>>, issue |-> <<"B","-","2">>],
      [component |-> <<"a","p","p">>, architectures |-> <<ppc64le>>, issue |-> <<"h","t","t","p",":","/","/","j","/","C","-","3">>] }

\* The configurations load_config can return: the defaults, or the TOML
\* file's content (which may lack either table).
Configs ==
    {[title |-> <<"t">>]} \cup
    { [accelerator_incompatibility_rules |-> r, exception |-> e] :
        r \in Lists(RulePool, MaxRules), e \in Lists(ExceptionPool, MaxExceptions) }

Range(q) == {q[i] : i \in DOMAIN q}

\* main has not run.
NoMain ==
    /\ git_calls = <<>>
    /\ file_paths = <<>>
    /\ idx = 0
    /\ components = <<>>
    /\ stderr = <<>>
    /\ stdout = <<>>
    /\ outfile = <<>>
    /\ exitcode = -1

(***************************************************************************)
(* SpecCell: get_cell_value applied to every input                         *)
(***************************************************************************)

InitCell ==
    /\ pc = "call"
    /\ args \in [component_name : CellNames,
                 arch : Range(arch_columns),
                 built_archs : {{}, {amd64, arm64}},
                 config : Configs]
    /\ ret = [value |-> None]
    /\ NoMain

CallGetCellValue ==
    /\ pc = "call"
    /\ \E output_format \in Formats :
          ret' = [output_format |-> output_format,
                  value |-> get_cell_value(args.component_name, args.arch,
                                           args.built_archs, args.config,
                                           output_format)]
    /\ pc' = "return"
    /\ UNCHANGED <<args, mainvars>>

NextCell == CallGetCellValue

SpecCell == InitCell /\ [][NextCell]_vars

(***************************************************************************)
(* Claims about get_cell_value (checked under SpecCell)                    *)
(***************************************************************************)

CellReturned == pc = "return" /\ "component_name" \in DOMAIN args

CellBuilt == args.arch \in args.built_archs

CellExceptions == Get(args.config, "exception", <<>>)

CellRules == Get(args.config, "accelerator_incompatibility_rules", <<>>)

\* The exception records naming the call's component and architecture.
CellMatches ==
    {i \in DOMAIN CellExceptions :
        /\ "component" \in DOMAIN CellExceptions[i]
        /\ CellExceptions[i].component = args.component_name
        /\ "architectures" \in DOMAIN CellExceptions[i]
        /\ \E j \in DOMAIN CellExceptions[i].architectures :
              CellExceptions[i].architectures[j] = args.arch}

CellFirstMatch == CellExceptions[Min(CellMatches)]

CellAcceleratorApplies ==
    is_accelerator_incompatible(args.component_name, args.arch, args.config)

\* C1: get_cell_value follows the precedence built ('Y'), then exception
\* record (the tracking-issue rendering of the first matching record, not the
\* 'N/A' marker), then accelerator rule ('N/A'), then the empty cell.
C1_CellPrecedence ==
    CellReturned =>
        /\ CellBuilt => ret.value = <<"Y">>
        /\ (~CellBuilt /\ CellMatches # {}) =>
              /\ ret.value = FormatIssue(CellFirstMatch, ret.output_format)
              /\ ret.value # <<"N","/","A">>
        /\ (~CellBuilt /\ CellMatches = {} /\ CellAcceleratorApplies) => ret.value = <<"N","/","A">>
        /\ (~CellBuilt /\ CellMatches = {} /\ ~CellAcceleratorApplies) => ret.value = <<>>

\* C1 witness: an unbuilt pair with both an exception record and an applicable
\* accelerator rule, rendered as the record's markdown link.
C1_Witness ==
    /\ CellReturned
    /\ ~CellBuilt
    /\ CellMatches # {}
    /\ CellAcceleratorApplies
    /\ ret.output_format = "markdown"
    /\ ret.value = <<"[","A","-","1","]","(","h","t","t","p",":","/","/","j","/","b","r","o","w","s","e","/","A","-","1",")">>

\* A keyword occurs in a name, compared without regard to case.
KeywordOccurs(keyword, name) == Contains(lower(name), lower(keyword))

\* Some configured keyword occurs in the name and lists the architecture.
CellSomeRuleListsArch ==
    \E i \in DOMAIN CellRules :
        /\ KeywordOccurs(CellRules[i].key, args.component_name)
        /\ InList(args.arch, CellRules[i].value)

\* C2: for an unbuilt pair without an exception record, whenever some
\* configured keyword occurs in the component name and lists the
\* architecture as incompatible, the cell is 'N/A'.
C2_AnyMatchingKeywordGivesNA ==
    (CellReturned /\ ~CellBuilt /\ CellMatches = {} /\ CellSomeRuleListsArch)
        => ret.value = <<"N","/","A">>

\* The URL has a '/browse/' segment followed by a key.
HasBrowseKey(url) ==
    \E i \in Occurrences(url, <<"/","b","r","o","w","s","e","/">>) : i + Len(<<"/","b","r","o","w","s","e","/">>) <= Len(url)

\* The URL is itself a bare key.
IsBareKey(url) == Contains(url, <<"-">>) /\ ~Contains(url, <<"/">>)

\* The URL is missing, empty or yields no issue key.
NoIssueKey(url) == ~HasBrowseKey(url) /\ ~IsBareKey(url)

\* C3: when the matching exception record's tracking-issue URL is missing,
\* empty or yields no issue key, the cell is the plain placeholder 'XXX' in
\* every output format.
C3_NoKeyRendersPlaceholder ==
    (CellReturned /\ ~CellBuilt /\ CellMatches # {}
        /\ NoIssueKey(Get(CellFirstMatch, "issue", <<>>)))
        => ret.value = XXX

(***************************************************************************)
(* Per-document parser                                                     *)
(***************************************************************************)

normalize_architecture_first_segment(platform) ==
    LET arch == IF Contains(platform, <<"/">>) THEN split(platform, <<"/">>)[1] ELSE platform
    IN  IF arch = <<"x","8","6","_","6","4">> THEN amd64 ELSE arch

\* normalize_architecture(platform)
normalize_architecture(platform) ==
    LET arch == IF Contains(platform, <<"/">>) THEN Last(split(platform, <<"/">>)) ELSE platform
    IN  IF arch = <<"x","8","6","_","6","4">> THEN amd64 ELSE arch

RegistryPrefix == <<"q","u","a","y",".","i","o","/","r","h","o","a","i","/">>

\* extract_component_name(output_image)
extract_component_name(output_image) ==
    LET name == IF startswith(output_image, RegistryPrefix)
                THEN SubSeq(output_image, Len(RegistryPrefix) + 1, Len(output_image))
                ELSE output_image
    IN  IF Contains(name, <<":">>) THEN split(name, <<":">>)[1] ELSE name

\* The values yaml.safe_load gives a parameter: a string, a list of strings, an
\* integer, or None for a missing 'value' key.
YStr(s) == [str |-> s]

YList(l) == [list |-> l]

YInt == [int |-> 1]

YNone == [none |-> TRUE]

\* Truth value of such a value: None, '' and [] are false.
YTruthy(v) == v # YNone /\ v # YStr(<<>>) /\ v # YList(<<>>)

\* The value the parameter loop leaves in a variable: the value of the last
\* parameter of that name, None when that parameter has no 'value' key (or the
\* given default), and the initial value when no parameter has the name.
LoopValue(params, name, initial, default) ==
    LET hits == {i \in DOMAIN params : Get(params[i], "name", "") = name}
    IN  IF hits = {} THEN initial ELSE Get(params[Max(hits)], "value", default)

\* A parse result: the returned (component_name, architectures) pair and the
\* warnings printed to stderr.
ParseResult(component_name, architectures, warnings) ==
    [component_name |-> component_name, architectures |-> architectures,
     warnings |-> warnings]

parse_pipelinerun_from_content_silent(file_path, content) ==
    IF content.kind \in {"yaml_error", "empty", "no_spec", "no_params"}
    THEN ParseResult(None, {}, <<>>)
    ELSE LET output_image == LoopValue(content.params, "output-image", YNone, YNone)
             platforms == LoopValue(content.params, "build-platforms", YList(<<>>),
                                    YList(<<>>))
         IN  IF ~YTruthy(output_image) \/ ~YTruthy(platforms)
                \/ "str" \notin DOMAIN output_image
             THEN ParseResult(None, {}, <<>>)
             ELSE ParseResult(extract_component_name(output_image.str),
                      {normalize_architecture(platforms.list[i]) :
                          i \in DOMAIN platforms.list},
                      <<>>)

\* parse_pipelinerun_from_content(file_path, content), the content being what
\* yaml.safe_load makes of it: an error, an empty document, a mapping without
\* spec or spec.params, or a mapping with a parameter list.
parse_pipelinerun_from_content(file_path, content) ==
    IF content.kind = "yaml_error"
    THEN ParseResult(None, {}, <<[warning |-> "Error parsing", file_path |-> file_path]>>)
    ELSE IF content.kind \in {"empty", "no_spec", "no_params"}
    THEN ParseResult(None, {}, <<>>)
    ELSE LET output_image == LoopValue(content.params, "output-image", YNone, YNone)
             platforms == LoopValue(content.params, "build-platforms", YList(<<>>),
                                    YList(<<>>))
         IN  IF ~YTruthy(output_image) \/ ~YTruthy(platforms)
             THEN ParseResult(None, {}, <<>>)
             ELSE IF "str" \notin DOMAIN output_image
             THEN \* output_image.startswith raises AttributeError
                  ParseResult(None, {},
                      <<[warning |-> "Error parsing", file_path |-> file_path]>>)
             ELSE ParseResult(extract_component_name(output_image.str),
                      {normalize_architecture(platforms.list[i]) :
                          i \in DOMAIN platforms.list},
                      <<>>)

\* parse_pipelinerun(file_path): the filesystem strategy's read, then the
\* parse.  A file that cannot be read has content of kind "unreadable".
parse_pipelinerun(file_path, content) ==
    IF content.kind = "unreadable"
    THEN ParseResult(None, {}, <<[warning |-> "Error reading", file_path |-> file_path]>>)
    ELSE parse_pipelinerun_from_content(file_path, content)

(***************************************************************************)
(* Inputs of the parser                                                    *)
(***************************************************************************)

MaxParams == 2

\* Image references: prefixed with a tag, prefixed without a tag, a registry
\* host with a port, another registry, nothing but prefix and tag.
ImagePool ==
    { <<"q","u","a","y",".","i","o","/","r","h","o","a","i","/","a","p","p",":","{","{","t","}","}">>, <<"q","u","a","y",".","i","o","/","r","h","o","a","i","/","b","-","r","h","e","l","9">>, <<"r","e","g",":","5","0","0","0","/","a","p","p",":","v","1">>,
      <<"d","o","c","k","e","r",".","i","o","/","x","/","a","p","p",":","v","1">>, <<"q","u","a","y",".","i","o","/","r","h","o","a","i","/",":","v","1">> }

\* Platform lists.
PlatformLists ==
    { <<<<"l","i","n","u","x","/","x","8","6","_","6","4">>>>,
      <<<<"l","i","n","u","x","/","x","8","6","_","6","4">>, <<"l","i","n","u","x","-","m","2","x","l","a","r","g","e","/","a","r","m","6","4">>>>,
      <<<<"x","8","6","_","6","4">>, <<"l","i","n","u","x","/","a","m","d","6","4">>>>,
      <<<<"l","i","n","u","x","/","d","1","6","0","/","s","3","9","0","x">>, <<"p","p","c","6","4","l","e">>>>,
      <<<<"x","8","6","_","6","4","/","r","i","s","c","v","6","4">>>> }

\* spec.params entries: output-image with a string, an empty string, a
\* non-string or no value; build-platforms with a list, an empty list or no
\* value; other parameters.
ParamPool ==
    {[name |-> "output-image", value |-> YStr(v)] : v \in ImagePool \cup {<<>>}}
    \cup {[name |-> "output-image", value |-> YInt], [name |-> "output-image"]}
    \cup {[name |-> "build-platforms", value |-> YList(v)] : v \in PlatformLists \cup {<<>>}}
    \cup {[name |-> "build-platforms"]}
    \cup {[name |-> "git-url", value |-> YStr(<<"u">>)], [value |-> YStr(<<"v">>)]}

\* What yaml.safe_load makes of a document.
Contents ==
    {[kind |-> k] : k \in {"yaml_error", "empty", "no_spec", "no_params"}}
    \cup {[kind |-> "params", params |-> p] : p \in Lists(ParamPool, MaxParams)}

(***************************************************************************)
(* SpecParse: parse_pipelinerun_from_content applied to every document     *)
(***************************************************************************)

FilePathA == <<"p","i","p","e","l","i","n","e","r","u","n","s","/","a","/",".","t","e","k","t","o","n","/","a",".","y","a","m","l">>

InitParse ==
    /\ pc = "call"
    /\ args \in [file_path : {FilePathA}, content : Contents]
    /\ ret = [value |-> None]
    /\ NoMain

CallParse ==
    /\ pc = "call"
    /\ LET r == parse_pipelinerun_from_content(args.file_path, args.content)
       IN  /\ ret' = [component_name |-> r.component_name,
                      architectures |-> r.architectures]
           /\ stderr' = stderr \o r.warnings
    /\ pc' = "return"
    /\ UNCHANGED <<args, git_calls, file_paths, idx, components, stdout, outfile, exitcode>>

NextParse == CallParse

SpecParse == InitParse /\ [][NextParse]_vars

(***************************************************************************)
(* Claims about the parser (checked under SpecParse)                       *)
(***************************************************************************)

ParseReturned == pc = "return" /\ "content" \in DOMAIN args

\* The document has a parameter list.
ParseHasParams == args.content.kind = "params"

\* The document's value for a parameter: that of the last entry of the name.
ParseParam(name, absent) ==
    LET hits == {i \in DOMAIN args.content.params :
                    /\ "name" \in DOMAIN args.content.params[i]
                    /\ args.content.params[i].name = name}
        last == args.content.params[Max(hits)]
    IN  IF hits = {} THEN absent
        ELSE IF "value" \in DOMAIN last THEN last.value ELSE absent

\* The parameter is absent or empty.
Blank(v) == v \in {YNone, YStr(<<>>), YList(<<>>)}

ParseImage == ParseParam("output-image", YNone)

ParsePlatforms == ParseParam("build-platforms", YNone)

\* The positions of a character in a string.
Positions(s, c) == {i \in DOMAIN s : s[i] = c}

\* The part of a string after its last c (the whole string without a c).
AfterLast(s, c) ==
    IF Positions(s, c) = {} THEN s ELSE SubSeq(s, Max(Positions(s, c)) + 1, Len(s))

\* The part of a string before its last c (the whole string without a c).
BeforeLast(s, c) ==
    IF Positions(s, c) = {} THEN s ELSE SubSeq(s, 1, Max(Positions(s, c)) - 1)

\* An image reference without the fixed prefix.
WithoutPrefix(image) ==
    IF Len(image) >= Len(RegistryPrefix)
       /\ \A i \in DOMAIN RegistryPrefix : image[i] = RegistryPrefix[i]
    THEN [i \in 1..(Len(image) - Len(RegistryPrefix)) |-> image[i + Len(RegistryPrefix)]]
    ELSE image

\* C7: the component identifier is the image reference without the fixed
\* prefix 'quay.io/rhoai/' and without the trailing tag, the part after the
\* last ':', the rest of the reference left intact.
C7_NameDropsOnlyTrailingTag ==
    (ParseReturned /\ ParseHasParams /\ ret.component_name # None)
        => ret.component_name = BeforeLast(WithoutPrefix(ParseImage.str), ":")

\* The architecture a platform string stands for.
ArchOf(platform) ==
    IF AfterLast(platform, "/") = <<"x","8","6","_","6","4">> THEN amd64 ELSE AfterLast(platform, "/")

\* C8: a document whose output-image or build-platforms parameter is absent
\* or empty yields (None, empty set); otherwise the architecture set is the
\* set of the platforms' substrings after the last '/', with x86_64 as amd64.
C8_ParseArchitectures ==
    (ParseReturned /\ ParseHasParams /\ ParseImage # YInt) =>
        IF Blank(ParseImage) \/ Blank(ParsePlatforms)
        THEN ret.component_name = None /\ ret.architectures = {}
        ELSE ret.architectures =
                {ArchOf(ParsePlatforms.list[i]) : i \in DOMAIN ParsePlatforms.list}

\* C8 witness: a multi-segment platform and x86_64 parsed.
C8_Witness ==
    /\ ParseReturned
    /\ ParseHasParams
    /\ ParsePlatforms = YList(<<<<"l","i","n","u","x","/","x","8","6","_","6","4">>, <<"l","i","n","u","x","-","m","2","x","l","a","r","g","e","/","a","r","m","6","4">>>>)
    /\ ret.architectures = {amd64, arm64}
    /\ ret.component_name = <<"a","p","p">>

(***************************************************************************)
(* File sources                                                            *)
(***************************************************************************)

\* A tree is the set of its files' relative paths.  The directories of a tree
\* are the proper prefixes of its files' paths.
DirectoriesOf(tree) ==
    UNION {{join(<<"/">>, SubSeq(split(f, <<"/">>), 1, n)) :
                n \in 1..(Len(split(f, <<"/">>)) - 1)} : f \in tree}

\* Path.glob("pipelineruns/*/.tekton/*.yaml") on one entry (a file or a
\* directory): one path component per pattern component.
GlobMatches(path) ==
    LET parts == split(path, <<"/">>)
    IN  /\ Len(parts) = Len(split(<<"p","i","p","e","l","i","n","e","r","u","n","s","/","*","/",".","t","e","k","t","o","n","/","*",".","y","a","m","l">>, <<"/">>))
        /\ parts[1] = <<"p","i","p","e","l","i","n","e","r","u","n","s">>
        /\ parts[3] = <<".","t","e","k","t","o","n">>
        /\ endswith(parts[4], <<".","y","a","m","l">>)

\* Path.__lt__: paths compare as their lists of components.
RECURSIVE PartsLess(_, _)
PartsLess(a, b) ==
    IF b = <<>> THEN FALSE
    ELSE IF a = <<>> THEN TRUE
    ELSE IF a[1] # b[1] THEN StrLess(a[1], b[1])
    ELSE PartsLess(Tail(a), Tail(b))

\* sorted(S) for a set of Path objects.
RECURSIVE sorted_paths(_)
sorted_paths(S) ==
    IF S = {} THEN <<>>
    ELSE LET m == CHOOSE x \in S :
                    \A y \in S \ {x} : PartsLess(split(x, <<"/">>), split(y, <<"/">>))
         IN  <<m>> \o sorted_paths(S \ {m})

\* find_pipelinerun_files(base_dir), as paths relative to base_dir.
find_pipelinerun_files(tree) ==
    sorted_paths({p \in tree \cup DirectoriesOf(tree) : GlobMatches(p)})

\* The stdout of git ls-tree -r --name-only <branch> pipelineruns/ : one line
\* per file under pipelineruns/, each ended by a newline.
RECURSIVE Lines(_)
Lines(paths) ==
    IF paths = <<>> THEN <<>> ELSE paths[1] \o <<"\n">> \o Lines(Tail(paths))

ls_tree(tree) == Lines(sorted({f \in tree : startswith(f, <<"p","i","p","e","l","i","n","e","r","u","n","s","/">>)}))

Whitespace == {" ", "\n"}

\* str.strip()
RECURSIVE strip(_)
strip(s) ==
    IF s = <<>> THEN s
    ELSE IF s[1] \in Whitespace THEN strip(Tail(s))
    ELSE IF s[Len(s)] \in Whitespace THEN strip(SubSeq(s, 1, Len(s) - 1))
    ELSE s

\* The filter of find_pipelinerun_files_from_git.
GitFilter(f) == f # <<>> /\ Contains(f, <<"/",".","t","e","k","t","o","n","/">>) /\ endswith(f, <<".","y","a","m","l">>)

\* find_pipelinerun_files_from_git(repo_dir, branch) on a listing that
\* succeeded.
find_pipelinerun_files_from_git(tree) ==
    LET all_files == split(strip(ls_tree(tree)), <<"\n">>)
    IN  sorted({all_files[i] : i \in {j \in DOMAIN all_files : GitFilter(all_files[j])}})

(***************************************************************************)
(* SpecFind: both strategies applied to the same tree                      *)
(***************************************************************************)

MaxFiles == 3

\* Files: two at the pattern's depth, one in a nested component directory,
\* one in a subdirectory of .tekton, one inside a directory named *.yaml,
\* and three that neither strategy selects.
PathPool ==
    { <<"p","i","p","e","l","i","n","e","r","u","n","s","/","a","/",".","t","e","k","t","o","n","/","x",".","y","a","m","l">>,
      <<"p","i","p","e","l","i","n","e","r","u","n","s","/","a","-","b","/",".","t","e","k","t","o","n","/","y",".","y","a","m","l">>,
      <<"p","i","p","e","l","i","n","e","r","u","n","s","/","a","/","b","/",".","t","e","k","t","o","n","/","z",".","y","a","m","l">>,
      <<"p","i","p","e","l","i","n","e","r","u","n","s","/","a","/",".","t","e","k","t","o","n","/","s","/","w",".","y","a","m","l">>,
      <<"p","i","p","e","l","i","n","e","r","u","n","s","/","c","/",".","t","e","k","t","o","n","/","d",".","y","a","m","l","/","f",".","t","x","t">>,
      <<"p","i","p","e","l","i","n","e","r","u","n","s","/","a","/",".","t","e","k","t","o","n","/","r",".","y","m","l">>,
      <<"p","i","p","e","l","i","n","e","r","u","n","s","/","a","/","t","e","k","t","o","n","/","x",".","y","a","m","l">>,
      <<"o","t","h","e","r","/","a","/",".","t","e","k","t","o","n","/","q",".","y","a","m","l">> }

Trees == {t \in SUBSET PathPool : Cardinality(t) <= MaxFiles}

InitFind ==
    /\ pc = "call"
    /\ args \in [tree : Trees]
    /\ ret = [git |-> NoneDict, fs |-> NoneDict]
    /\ NoMain

CallFindFromGit ==
    /\ pc = "call"
    /\ ret.git = NoneDict
    /\ ret' = [ret EXCEPT !.git = [paths |-> find_pipelinerun_files_from_git(args.tree)]]
    /\ UNCHANGED <<pc, args, mainvars>>

CallFindFiles ==
    /\ pc = "call"
    /\ ret.fs = NoneDict
    /\ ret' = [ret EXCEPT !.fs = [paths |-> find_pipelinerun_files(args.tree)]]
    /\ UNCHANGED <<pc, args, mainvars>>

NextFind == CallFindFromGit \/ CallFindFiles

SpecFind == InitFind /\ [][NextFind]_vars

\* Both strategies have listed the tree.
FindBoth == "tree" \in DOMAIN args /\ ret.git # NoneDict /\ ret.fs # NoneDict

\* C5: for the same tree, the version-control strategy and the filesystem
\* strategy select the same set of relative paths.
C5_StrategiesSelectSamePaths ==
    FindBoth => Range(ret.git.paths) = Range(ret.fs.paths)

(***************************************************************************)
(* Table renderer                                                          *)
(***************************************************************************)

\* The components dict in insertion order is a list of [key, value] items
\* with distinct keys; sorted(components.items()) orders them by name.
Keys(d) == {d[i].key : i \in DOMAIN d}

sorted_components_unsorted(mapping) == mapping

sorted_components(mapping) ==
    LET names == sorted(Keys(mapping))
    IN  [i \in DOMAIN names |-> [key |-> names[i], value |-> DictGet(mapping, names[i], {})]]

\* s.replace(old, new) for a one-character old.
RECURSIVE replace(_, _, _)
replace(s, old, new) ==
    IF s = <<>> THEN <<>>
    ELSE (IF s[1] = old THEN new ELSE <<s[1]>>) \o replace(Tail(s), old, new)

\* generate_table's cells of one component in one format, column by column.
Cells(item, config, output_format) ==
    [j \in DOMAIN arch_columns |->
        get_cell_value(item.key, arch_columns[j], item.value, config, output_format)]

\* The CSV escaping of a cell: a formula is quoted, its quotes doubled.
CsvCell(cell_value) ==
    IF startswith(cell_value, <<"=">>)
    THEN <<"\"">> \o replace(cell_value, "\"", <<"\"","\"">>) \o <<"\"">>
    ELSE cell_value

\* The csv branch: the lines before '\n'.join.
CsvLines(items, config) ==
    <<<<"C","o","m","p","o","n","e","n","t"," ","I","m","a","g","e",",","a","m","d","6","4",",","a","r","m","6","4",",","p","p","c","6","4","l","e",",","s","3","9","0","x">>>> \o
    [i \in DOMAIN items |->
        LET cells == Cells(items[i], config, "csv")
        IN  join(<<",">>, <<items[i].key>> \o [j \in DOMAIN cells |-> CsvCell(cells[j])])]

\* The jira branch.
JiraLines(items, config) ==
    <<<<"|","|"," ","C","o","m","p","o","n","e","n","t"," ","I","m","a","g","e"," ","|","|"," ","a","m","d","6","4"," ","|","|"," ","a","r","m","6","4"," ","|","|"," ","p","p","c","6","4","l","e"," ","|","|"," ","s","3","9","0","x"," ","|","|">>>> \o
    [i \in DOMAIN items |->
        <<"|"," ">> \o join(<<" ","|"," ">>, <<items[i].key>> \o Cells(items[i], config, "jira")) \o <<" ","|">>]

ComponentImage == <<"C","o","m","p","o","n","e","n","t"," ","I","m","a","g","e">>

\* max_name_len of the markdown and text branches.
MaxNameLen(items) ==
    LET longest == IF items # <<>> THEN Max({Len(items[i].key) : i \in DOMAIN items})
                   ELSE 10
    IN  Max({longest, Len(ComponentImage)})

\* The display width the markdown branch gives a cell: for a link, the
\* length of the text between '[' and the first ']'.
MarkdownCellWidth(cell_value) ==
    IF startswith(cell_value, <<"[">>) /\ Contains(cell_value, <<"]","(">>)
    THEN Len(Tail(split(cell_value, <<"]">>)[1]))
    ELSE Len(cell_value)

\* The cells of every component, row by row: cells[i][j] is
\* get_cell_value for the i-th item and the j-th column.
CellMatrix(items, config, output_format) ==
    [i \in DOMAIN items |-> Cells(items[i], config, output_format)]

\* arch_widths of the markdown branch, column by column.
MarkdownWidths(cells) ==
    [j \in DOMAIN arch_columns |->
        Max({Len(arch_columns[j])} \cup
            {MarkdownCellWidth(cells[i][j]) : i \in DOMAIN cells})]

\* arch_widths of the text branch.
TextWidths(cells) ==
    [j \in DOMAIN arch_columns |->
        Max({Len(arch_columns[j])} \cup {Len(cells[i][j]) : i \in DOMAIN cells})]

\* The markdown branch.
MarkdownLines(items, config) ==
    LET max_name_len == MaxNameLen(items)
        cells == CellMatrix(items, config, "markdown")
        arch_widths == MarkdownWidths(cells)
        header_parts == <<ljust(ComponentImage, max_name_len)>> \o
                        [j \in DOMAIN arch_columns |-> center(arch_columns[j], arch_widths[j])]
        header == <<"|"," ">> \o join(<<" ","|"," ">>, header_parts) \o <<" ","|">>
        sep_parts == <<Repeat("-", max_name_len)>> \o
                     [j \in DOMAIN arch_columns |-> Repeat("-", arch_widths[j])]
        separator == <<"|">> \o
                     join(<<"|">>, [k \in DOMAIN sep_parts |-> <<" ">> \o sep_parts[k] \o <<" ">>])
                     \o <<"|">>
    IN  <<header, separator>> \o
        [i \in DOMAIN items |->
            LET row_parts == <<ljust(items[i].key, max_name_len)>> \o
                             [j \in DOMAIN arch_columns |->
                                 center(cells[i][j], arch_widths[j])]
            IN  <<"|"," ">> \o join(<<" ","|"," ">>, row_parts) \o <<" ","|">>]

\* The text branch.
TextLines(items, config) ==
    LET max_name_len == MaxNameLen(items)
        cells == CellMatrix(items, config, "text")
        arch_widths == TextWidths(cells)
        header_parts == <<ljust(ComponentImage, max_name_len)>> \o
                        [j \in DOMAIN arch_columns |-> center(arch_columns[j], arch_widths[j])]
        header == join(<<" "," ">>, header_parts)
        separator == Repeat("-", Len(header))
    IN  <<header, separator>> \o
        [i \in DOMAIN items |->
            LET row_parts == <<ljust(items[i].key, max_name_len)>> \o
                             [j \in DOMAIN arch_columns |->
                                 center(cells[i][j], arch_widths[j])]
            IN  join(<<" "," ">>, row_parts)]

\* generate_table(components, config, output_format), the dict being mapping.
generate_table(mapping, config, output_format) ==
    LET items == sorted_components(mapping)
    IN  join(<<"\n">>,
             IF output_format = "csv" THEN CsvLines(items, config)
             ELSE IF output_format = "jira" THEN JiraLines(items, config)
             ELSE IF output_format = "markdown" THEN MarkdownLines(items, config)
             ELSE TextLines(items, config))

(***************************************************************************)
(* SpecTable: generate_table applied to every mapping, configuration and   *)
(* format                                                                  *)
(***************************************************************************)

MaxComponents == 2

\* Component names, one of them longer than the header 'Component Image'.
TableNames == {<<"a","p","p">>, <<"C","u","d","a","-","a","p","p">>, <<"o","d","h","-","l","o","n","g","-","n","a","m","e","-","r","h","e","l","9">>}

\* Built architecture sets, one with an architecture that is no column.
ArchSets == {{amd64}, {amd64, arm64, <<"r","i","s","c","v","6","4">>}}

ItemPool == {[key |-> n, value |-> a] : n \in TableNames, a \in ArchSets}

\* The dicts main can build, in every insertion order.
Mappings ==
    {m \in Lists(ItemPool, MaxComponents) :
        \A i, j \in DOMAIN m : i # j => m[i].key # m[j].key}

\* Configurations with at most one rule and at most one exception record,
\* whose issue is a browse URL with a key, empty or missing.
TableConfigs ==
    {c \in Configs :
        /\ Len(Get(c, "accelerator_incompatibility_rules", <<>>)) <= 1
        /\ Len(Get(c, "exception", <<>>)) <= 1
        /\ \A i \in DOMAIN Get(c, "exception", <<>>) :
              Get(c.exception[i], "issue", <<>>) \in {<<>>, <<"h","t","t","p",":","/","/","j","/","b","r","o","w","s","e","/","A","-","1">>}}

InitTable ==
    /\ pc = "call"
    /\ args \in [mapping : Mappings, config : TableConfigs]
    /\ ret = [table |-> None]
    /\ NoMain

CallGenerateTable ==
    /\ pc = "call"
    /\ \E output_format \in Formats :
          ret' = [output_format |-> output_format,
                  table |-> generate_table(args.mapping, args.config, output_format)]
    /\ pc' = "return"
    /\ UNCHANGED <<args, mainvars>>

NextTable == CallGenerateTable

SpecTable == InitTable /\ [][NextTable]_vars

(***************************************************************************)
(* Claims about generate_table (checked under SpecTable)                   *)
(***************************************************************************)

TableReturned == pc = "return" /\ "mapping" \in DOMAIN args

TableLines == split(ret.table, <<"\n">>)

\* Markdown and text tables have a header and a separator line, csv and
\* jira tables a header line.
HeaderLineCount == IF ret.output_format \in {"markdown", "text"} THEN 2 ELSE 1

DataLines == SubSeq(TableLines, HeaderLineCount + 1, Len(TableLines))

\* A line without its first and last n characters.
Inner(line, n) == SubSeq(line, n + 1, Len(line) - n)

\* The fields of a quoted CSV field's remainder: up to the closing quote, a
\* doubled quote standing for one quote.
RECURSIVE CsvQuoted(_, _)
CsvQuoted(s, acc) ==
    IF s = <<>> THEN [field |-> acc, rest |-> <<>>]
    ELSE IF s[1] # "\"" THEN CsvQuoted(Tail(s), Append(acc, s[1]))
    ELSE IF Len(s) >= 2 /\ s[2] = "\"" THEN CsvQuoted(Tail(Tail(s)), Append(acc, "\""))
    ELSE [field |-> acc, rest |-> Tail(s)]

\* The fields a CSV reader finds in a line.
RECURSIVE CsvFields(_)
CsvFields(s) ==
    IF s # <<>> /\ s[1] = "\""
    THEN LET q == CsvQuoted(Tail(s), <<>>)
         IN  IF q.rest = <<>> THEN <<q.field>>
             ELSE <<q.field>> \o CsvFields(Tail(q.rest))
    ELSE IF Positions(s, ",") = {} THEN <<s>>
    ELSE LET i == Min(Positions(s, ","))
         IN  <<SubSeq(s, 1, i - 1)>> \o CsvFields(SubSeq(s, i + 1, Len(s)))

\* The fields of fixed widths of a text line, two spaces apart.
RECURSIVE Slices(_, _)
Slices(line, widths) ==
    IF widths = <<>> THEN (IF line = <<>> THEN <<>> ELSE <<line>>)
    ELSE <<SubSeq(line, 1, widths[1])>> \o
         Slices(SubSeq(line, widths[1] + Len(<<" "," ">>) + 1, Len(line)), Tail(widths))

StripAll(fields) == [i \in DOMAIN fields |-> strip(fields[i])]

\* The cells a reader of the format finds in a line of the table (widths:
\* the column widths of a text table).
Fields(line, output_format, widths) ==
    IF output_format = "csv" THEN CsvFields(line)
    ELSE IF output_format = "jira"
    THEN IF startswith(line, <<"|","|">>)
         THEN split(Inner(line, Len(<<"|","|"," ">>)), <<" ","|","|"," ">>)
         ELSE split(Inner(line, Len(<<"|"," ">>)), <<" ","|"," ">>)
    ELSE IF output_format = "markdown"
    THEN StripAll(split(Inner(line, Len(<<"|"," ">>)), <<" ","|"," ">>))
    ELSE StripAll(Slices(line, widths))

\* The column widths of the text table of the call's mapping.
TableTextWidths ==
    <<MaxNameLen(args.mapping)>> \o
    TextWidths(CellMatrix(args.mapping, args.config, "text"))

\* The fields of every line of the returned table.
TableFields ==
    LET lines == TableLines
        widths == IF ret.output_format = "text" THEN TableTextWidths ELSE <<>>
    IN  [i \in DOMAIN lines |-> Fields(lines[i], ret.output_format, widths)]

\* The component names of the mapping in ascending order.
ExpectedNames == sorted({args.mapping[i].key : i \in DOMAIN args.mapping})

ExpectedArchs(name) ==
    args.mapping[CHOOSE i \in DOMAIN args.mapping : args.mapping[i].key = name].value

\* C9: in every format the table has one data row per component, in
\* ascending order of component name, each holding the name and the four
\* cells of the columns amd64, arm64, ppc64le, s390x named by the header.
C9_OneSortedRowPerComponent ==
    TableReturned =>
        LET fields == TableFields
            names == ExpectedNames
            rows == {i \in DOMAIN fields : i > HeaderLineCount}
        IN  /\ Cardinality(rows) = Cardinality({args.mapping[i].key : i \in DOMAIN args.mapping})
            /\ fields[1] = <<ComponentImage, amd64, arm64, ppc64le, s390x>>
            /\ \A i \in rows :
                  /\ fields[i] =
                        <<names[i - HeaderLineCount]>> \o
                        [j \in 1..4 |->
                            get_cell_value(names[i - HeaderLineCount], arch_columns[j],
                                           ExpectedArchs(names[i - HeaderLineCount]),
                                           args.config, ret.output_format)]
                  /\ \A k \in rows : i < k => StrLess(fields[i][1], fields[k][1])

\* C9 witness: two components inserted in descending order, one built for an
\* architecture that is no column, rendered as csv.
C9_Witness ==
    /\ TableReturned
    /\ ret.output_format = "csv"
    /\ Len(args.mapping) = 2
    /\ StrLess(args.mapping[2].key, args.mapping[1].key)
    /\ <<"r","i","s","c","v","6","4">> \in args.mapping[1].value
    /\ Len(DataLines) = 2
    /\ TableFields[2][1] = args.mapping[2].key

\* What a markdown line displays: each link '[text](target)' shows its text.
RECURSIVE MarkdownDisplay(_)
MarkdownDisplay(s) ==
    IF ~Contains(s, <<"]","(">>) THEN s
    ELSE LET j == Min(Occurrences(s, <<"]","(">>))
             opens == {i \in 1..(j - 1) : s[i] = "["}
             closes == {k \in (j + 2)..Len(s) : s[k] = ")"}
         IN  IF opens = {} \/ closes = {} THEN s
             ELSE SubSeq(s, 1, Max(opens) - 1) \o SubSeq(s, Max(opens) + 1, j - 1)
                  \o MarkdownDisplay(SubSeq(s, Min(closes) + 1, Len(s)))

DisplayWidth(line) ==
    IF ret.output_format = "markdown" THEN Len(MarkdownDisplay(line)) ELSE Len(line)

\* C10: in markdown and text output every line of the table has the same
\* display width, a markdown link counting as its link text.
C10_LinesSameDisplayWidth ==
    (TableReturned /\ ret.output_format \in {"markdown", "text"}) =>
        LET lines == TableLines
            width == [i \in DOMAIN lines |-> DisplayWidth(lines[i])]
        IN  \A i, k \in DOMAIN lines : width[i] = width[k]

(***************************************************************************)
(* main                                                                    *)
(***************************************************************************)

\* components[key] = value on a dict in insertion order: an existing key
\* keeps its place, a new key goes last.
DictSet(d, k, v) ==
    IF \E i \in DOMAIN d : d[i].key = k
    THEN [i \in DOMAIN d |-> IF d[i].key = k THEN [key |-> k, value |-> v] ELSE d[i]]
    ELSE Append(d, [key |-> k, value |-> v])

\* The guard of the assignment in both loops: if component_name and architectures.
Stores(r) == Truthy(r.component_name) /\ r.architectures # {}

Store_union(mapping, r) ==
    IF Stores(r)
    THEN DictSet(mapping, r.component_name,
                 r.architectures \cup
                 UNION {mapping[i].value :
                          i \in {k \in DOMAIN mapping : mapping[k].key = r.component_name}})
    ELSE mapping

\* One pass of either loop over the components dict.
Store(mapping, r) ==
    IF Stores(r) THEN DictSet(mapping, r.component_name, r.architectures) ELSE mapping

no_files_never(paths) == FALSE

\* if not file_paths / if not files
no_files(paths) == ~Truthy(paths)

\* What reading a path gives: the file's document, or a failure for a path
\* that is no readable file.
ContentAt(tree, path) == IF path \in DOMAIN tree THEN tree[path] ELSE [kind |-> "unreadable"]

\* The body of the loop over the branch's files: read_file_from_git, whose
\* ValueError is caught and printed as a warning, then the parse.
read_and_parse_from_git(file_path, content) ==
    IF content.kind = "unreadable"
    THEN ParseResult(None, {}, <<[warning |-> "Error reading file", file_path |-> file_path]>>)
    ELSE parse_pipelinerun_from_content(file_path, content)

Info(text, n) == [info |-> text, n |-> n]

Error(text) == [error |-> text]

(***************************************************************************)
(* Spec: every run of main                                                 *)
(***************************************************************************)

\* Documents: unreadable, not YAML, empty, two builds of the component app,
\* a build of Cuda-app, and an image reference that leaves no name.
DocParams(image, platforms) ==
    [kind |-> "params",
     params |-> <<[name |-> "output-image", value |-> YStr(image)],
                  [name |-> "build-platforms", value |-> YList(platforms)]>>]

MainDocs ==
    { [kind |-> "unreadable"], [kind |-> "yaml_error"], [kind |-> "empty"],
      DocParams(<<"q","u","a","y",".","i","o","/","r","h","o","a","i","/","a","p","p",":","v","1">>, <<<<"l","i","n","u","x","/","x","8","6","_","6","4">>>>),
      DocParams(<<"q","u","a","y",".","i","o","/","r","h","o","a","i","/","a","p","p",":","v","1">>, <<<<"l","i","n","u","x","/","a","r","m","6","4">>, <<"l","i","n","u","x","/","r","i","s","c","v","6","4">>>>),
      DocParams(<<"q","u","a","y",".","i","o","/","r","h","o","a","i","/","C","u","d","a","-","a","p","p",":","v","1">>, <<<<"l","i","n","u","x","/","x","8","6","_","6","4">>, <<"l","i","n","u","x","/","s","3","9","0","x">>>>),
      DocParams(<<"q","u","a","y",".","i","o","/","r","h","o","a","i","/",":","v","1">>, <<<<"l","i","n","u","x","/","x","8","6","_","6","4">>>>) }

\* A file neither strategy selects.
OtherFile == <<"p","i","p","e","l","i","n","e","r","u","n","s","/","a","/",".","t","e","k","t","o","n","/","r",".","y","m","l">>

\* Files: two at the pattern's depth (the two strategies sort them
\* differently), one below a nested directory, and the other file.
MainPaths ==
    { <<"p","i","p","e","l","i","n","e","r","u","n","s","/","a","/",".","t","e","k","t","o","n","/","x",".","y","a","m","l">>,
      <<"p","i","p","e","l","i","n","e","r","u","n","s","/","a","-","b","/",".","t","e","k","t","o","n","/","y",".","y","a","m","l">>,
      <<"p","i","p","e","l","i","n","e","r","u","n","s","/","a","/","b","/",".","t","e","k","t","o","n","/","z",".","y","a","m","l">>,
      OtherFile }

\* The trees of at most MaxFiles files, each holding a document.
MainTrees ==
    {t \in UNION {[S -> MainDocs] :
                    S \in {T \in SUBSET MainPaths : Cardinality(T) <= MaxFiles}} :
        OtherFile \in DOMAIN t => t[OtherFile] = [kind |-> "empty"]}

\* The configuration of the runs: one exception record and one rule.
MainConfig ==
    [accelerator_incompatibility_rules |-> <<[key |-> <<"c","u","d","a">>, value |-> <<arm64, ppc64le>>]>>,
     exception |-> <<[component |-> <<"a","p","p">>, architectures |-> <<s390x>>,
                      issue |-> <<"h","t","t","p",":","/","/","j","/","b","r","o","w","s","e","/","A","-","1">>]>>]

\* The command line (--branch given or not) and the environment: whether
\* git rev-parse finds the ref or cannot run, whether git ls-tree succeeds,
\* and the tree of the ref or of the working directory.
Init ==
    /\ pc = "start"
    /\ args \in [branch : {None, <<"r","h","o","a","i","-","3",".","2">>},
                 ref : {"exists", "missing", "git_error"},
                 ls_tree_ok : BOOLEAN,
                 tree : MainTrees,
                 config : {MainConfig}]
    /\ args.branch = None => args.ref = "exists" /\ args.ls_tree_ok
    /\ ret = [value |-> None]
    /\ NoMain

\* main, lines 592-604 and 636-638: the configuration is loaded and the
\* strategy chosen.
Start ==
    /\ pc = "start"
    /\ IF Truthy(args.branch)
       THEN /\ stderr' = stderr \o <<Info("Loaded configuration", 0),
                                      Info("Reading PipelineRun files from git branch", 0)>>
            /\ pc' = "validate"
       ELSE /\ stderr' = stderr \o <<Info("Loaded configuration", 0),
                                      Info("Reading PipelineRun files from filesystem", 0)>>
            /\ pc' = "find_files"
    /\ UNCHANGED <<args, ret, git_calls, file_paths, idx, components, stdout, outfile,
                   exitcode>>

\* main, lines 606-610, with validate_git_branch: a missing ref ends the run;
\* so does the ValueError of a git that cannot run, which nothing catches.
ValidateBranch ==
    /\ pc = "validate"
    /\ git_calls' = Append(git_calls, "rev-parse")
    /\ IF args.ref = "exists"
       THEN /\ pc' = "list"
            /\ UNCHANGED <<stderr, exitcode>>
       ELSE /\ pc' = "exit"
            /\ exitcode' = 1
            /\ stderr' = stderr \o
                  (IF args.ref = "missing"
                   THEN <<Error("Git branch not found"), Info("Tip: Run 'git fetch origin'", 0)>>
                   ELSE <<Error("Traceback: ValueError")>>)
    /\ UNCHANGED <<args, ret, file_paths, idx, components, stdout, outfile>>

\* main, lines 612-624, with find_pipelinerun_files_from_git.
FindFromGit ==
    /\ pc = "list"
    /\ git_calls' = Append(git_calls, "ls-tree")
    /\ IF ~args.ls_tree_ok
       THEN /\ stderr' = Append(stderr, Error("Error listing files from git branch"))
            /\ exitcode' = 1
            /\ pc' = "exit"
            /\ UNCHANGED file_paths
       ELSE LET paths == find_pipelinerun_files_from_git(DOMAIN args.tree)
            IN  IF no_files(paths)
                THEN /\ stderr' = Append(stderr, Error("No PipelineRun files found in branch"))
                     /\ exitcode' = 1
                     /\ pc' = "exit"
                     /\ UNCHANGED file_paths
                ELSE /\ stderr' = Append(stderr, Info("Found PipelineRun files", Len(paths)))
                     /\ file_paths' = paths
                     /\ pc' = "read"
                     /\ UNCHANGED exitcode
    /\ UNCHANGED <<args, ret, idx, components, stdout, outfile>>

\* main, lines 626-634: one pass of the loop over the branch's files.
ReadAndParseFromGit ==
    /\ pc = "read"
    /\ idx < Len(file_paths)
    /\ LET file_path == file_paths[idx + 1]
           r == read_and_parse_from_git(file_path, ContentAt(args.tree, file_path))
       IN  /\ components' = Store(components, r)
           /\ stderr' = stderr \o r.warnings
    /\ git_calls' = Append(git_calls, "show")
    /\ idx' = idx + 1
    /\ UNCHANGED <<pc, args, ret, file_paths, stdout, outfile, exitcode>>

\* main, lines 640-647, with find_pipelinerun_files.
FindFiles ==
    /\ pc = "find_files"
    /\ LET files == find_pipelinerun_files(DOMAIN args.tree)
       IN  IF no_files(files)
           THEN /\ stderr' = Append(stderr, Error("No PipelineRun files found"))
                /\ exitcode' = 1
                /\ pc' = "exit"
                /\ UNCHANGED file_paths
           ELSE /\ stderr' = Append(stderr, Info("Found PipelineRun files", Len(files)))
                /\ file_paths' = files
                /\ pc' = "parse"
                /\ UNCHANGED exitcode
    /\ UNCHANGED <<args, ret, git_calls, idx, components, stdout, outfile>>

\* main, lines 649-653: one pass of the loop over the files.
ParseFile ==
    /\ pc = "parse"
    /\ idx < Len(file_paths)
    /\ LET file_path == file_paths[idx + 1]
           r == parse_pipelinerun(file_path, ContentAt(args.tree, file_path))
       IN  /\ components' = Store(components, r)
           /\ stderr' = stderr \o r.warnings
    /\ idx' = idx + 1
    /\ UNCHANGED <<pc, args, ret, git_calls, file_paths, stdout, outfile, exitcode>>

\* main, lines 655-667: after the loop the table is generated in the format
\* of --format and written to --output, or printed.
WriteTable ==
    /\ pc \in {"read", "parse"}
    /\ idx = Len(file_paths)
    /\ \E output_format \in Formats, to_file \in BOOLEAN :
          LET table == generate_table(components, args.config, output_format)
          IN  /\ ret' = [output_format |-> output_format, table |-> table]
              /\ IF to_file
                 THEN /\ outfile' = table \o <<"\n">>
                      /\ stderr' = stderr \o <<Info("Parsed components", Len(components)),
                                                Info("Table written", 0)>>
                      /\ UNCHANGED stdout
                 ELSE /\ stdout' = table \o <<"\n">>
                      /\ stderr' = Append(stderr, Info("Parsed components", Len(components)))
                      /\ UNCHANGED outfile
    /\ pc' = "done"
    /\ exitcode' = 0
    /\ UNCHANGED <<args, git_calls, file_paths, idx, components>>

Next ==
    \/ Start
    \/ ValidateBranch
    \/ FindFromGit
    \/ ReadAndParseFromGit
    \/ FindFiles
    \/ ParseFile
    \/ WriteTable

Spec == Init /\ [][Next]_vars

(***************************************************************************)
(* Claims about main (checked under Spec)                                  *)
(***************************************************************************)

\* A run of main (not a call of one function).
MainRun == "tree" \in DOMAIN args /\ "branch" \in DOMAIN args

GitRun == MainRun /\ args.branch # None

\* The document at a located path fails to read or to parse.
Failing(path) == ContentAt(args.tree, path).kind \in {"unreadable", "yaml_error"}

\* A warning naming the path is on stderr.
Warned(path) ==
    \E i \in DOMAIN stderr : "warning" \in DOMAIN stderr[i] /\ stderr[i].file_path = path

\* The component names of the located documents, among the first n, that
\* parsed to a name and an architecture set.
ParsedNames(n) ==
    {parse_pipelinerun_from_content(file_paths[i], ContentAt(args.tree, file_paths[i])).component_name :
        i \in {k \in 1..n :
                 /\ ~Failing(file_paths[k])
                 /\ Stores(parse_pipelinerun_from_content(file_paths[k],
                                                         ContentAt(args.tree, file_paths[k])))}}

\* The component names in the first cells of the written table's data rows.
WrittenRowNames ==
    LET lines == split(ret.table, <<"\n">>)
        widths == IF ret.output_format = "text"
                  THEN <<MaxNameLen(components)>> \o
                       TextWidths(CellMatrix(components, args.config, "text"))
                  ELSE <<>>
        header == IF ret.output_format \in {"markdown", "text"} THEN 2 ELSE 1
    IN  {Fields(lines[i], ret.output_format, widths)[1] : i \in (header + 1)..Len(lines)}

\* C4: a document that fails to read or parse never aborts the run: the run
\* fails only before the first document, every failing document is warned
\* about and contributes no entry, every later document is processed, and
\* the written table has a row for every component that parsed.
C4_MalformedNeverAborts ==
    MainRun =>
        /\ pc = "exit" => idx = 0 /\ file_paths = <<>>
        /\ \A i \in 1..idx : Failing(file_paths[i]) => Warned(file_paths[i])
        /\ Keys(components) = ParsedNames(idx)
        /\ pc = "done" =>
              /\ idx = Len(file_paths)
              /\ exitcode = 0
              /\ (stdout = ret.table \o <<"\n">>) # (outfile = ret.table \o <<"\n">>)
              /\ WrittenRowNames = ParsedNames(Len(file_paths))

\* C4 witness: a run over a branch whose first document cannot be read and
\* whose second is not YAML writes a table with the third's component.
C4_Witness ==
    /\ GitRun
    /\ pc = "done"
    /\ Len(file_paths) = 3
    /\ ContentAt(args.tree, file_paths[1]).kind = "unreadable"
    /\ ContentAt(args.tree, file_paths[2]).kind = "yaml_error"
    /\ Warned(file_paths[1])
    /\ Warned(file_paths[2])
    /\ Keys(components) = {<<"C","u","d","a","-","a","p","p">>}
    /\ WrittenRowNames = {<<"C","u","d","a","-","a","p","p">>}

\* The git commands run so far include cmd.
Ran(cmd) == \E i \in DOMAIN git_calls : git_calls[i] = cmd

\* The listing of the ref yields no matching file.
NoMatchingFiles == find_pipelinerun_files_from_git(DOMAIN args.tree) = <<>>

TableWritten == stdout # <<>> \/ outfile # <<>>

\* C6: with --branch, the ref is validated before any listing or read; a
\* run whose ref does not exist, or whose listing has no matching file, ends
\* with a diagnostic and exit status 1, having parsed and written nothing; a
\* table is written only when the ref validated and a matching path exists.
C6_RefValidatedBeforeListing ==
    GitRun =>
        /\ git_calls # <<>> => git_calls[1] = "rev-parse"
        /\ (Ran("ls-tree") \/ Ran("show")) => args.ref = "exists"
        /\ Ran("show") => Ran("ls-tree") /\ ~NoMatchingFiles
        /\ (args.ref # "exists" /\ pc \notin {"start", "validate"}) => pc = "exit"
        /\ (NoMatchingFiles /\ pc \notin {"start", "validate", "list"}) => pc = "exit"
        /\ pc = "exit" =>
              /\ exitcode = 1
              /\ \E i \in DOMAIN stderr : "error" \in DOMAIN stderr[i]
              /\ ~TableWritten
              /\ ~Ran("show")
              /\ components = <<>>
        /\ TableWritten =>
              /\ args.ref = "exists"
              /\ ~NoMatchingFiles
              /\ exitcode = 0

\* C6 witness: the ref exists, the listing succeeds on a tree that holds a
\* file, no path matches, and the run has failed without reading a file.
C6_Witness ==
    /\ GitRun
    /\ pc = "exit"
    /\ args.ref = "exists"
    /\ args.ls_tree_ok
    /\ DOMAIN args.tree = {OtherFile}
    /\ git_calls = <<"rev-parse", "ls-tree">>
    /\ exitcode = 1


(***************************************************************************)
(* SpecCsv: the csv branch of generate_table, over component names and     *)
(* tracking-issue URLs that hold '=' and '"'                               *)
(***************************************************************************)

\* Component names as extract_component_name returns them: plain, beginning
\* with '=' (output-image 'quay.io/rhoai/=1+1:v1'), holding a '"'.
CsvNames == {<<"a","p","p">>, <<"=","1","+","1">>, <<"a","\"","b">>}

CsvItemPool == {[key |-> n, value |-> a] : n \in CsvNames, a \in ArchSets}

CsvMappings ==
    {m \in Lists(CsvItemPool, MaxComponents) :
        \A i, j \in DOMAIN m : i # j => m[i].key # m[j].key}

\* [[exception]] records: a browse URL, a browse URL holding a '"', no issue.
CsvExceptionPool ==
    { [component |-> <<"a","p","p">>, architectures |-> <<arm64, s390x>>,
       issue |-> <<"h","t","t","p",":","/","/","j","/","b","r","o","w","s","e","/","A","-","1">>],
      [component |-> <<"=","1","+","1">>, architectures |-> <<arm64>>,
       issue |-> <<"h","t","t","p",":","/","/","j","/","b","r","o","w","s","e","/","A","\"","1">>],
      [component |-> <<"a","\"","b">>, architectures |-> <<ppc64le>>],
      [component |-> <<"a","p","p">>, architectures |-> <<ppc64le>>,
       issue |-> <<"=","x">>] }

CsvConfigs ==
    {[title |-> <<"t">>]} \cup
    { [exception |-> e] : e \in Lists(CsvExceptionPool, MaxExceptions) }

InitCsv ==
    /\ pc = "call"
    /\ args \in [csv_mapping : CsvMappings, config : CsvConfigs]
    /\ ret = [table |-> None]
    /\ NoMain

CallGenerateCsv ==
    /\ pc = "call"
    /\ ret' = [output_format |-> "csv",
               table |-> generate_table(args.csv_mapping, args.config, "csv")]
    /\ pc' = "return"
    /\ UNCHANGED <<args, mainvars>>

NextCsv == CallGenerateCsv

SpecCsv == InitCsv /\ [][NextCsv]_vars

(***************************************************************************)
(* Claim about the csv escaping                                            *)
(***************************************************************************)

CsvReturned == pc = "return" /\ "csv_mapping" \in DOMAIN args

\* A string with every double quote doubled.
RECURSIVE QuotesDoubled(_)
QuotesDoubled(s) ==
    IF s = <<>> THEN <<>>
    ELSE (IF s[1] = "\"" THEN <<"\"", "\"">> ELSE <<s[1]>>) \o QuotesDoubled(Tail(s))

IsFormula(cell) == cell # <<>> /\ cell[1] = "="

\* The field the claim wants for a cell.
CsvEmitted(cell) ==
    IF IsFormula(cell) THEN <<"\"">> \o QuotesDoubled(cell) \o <<"\"">> ELSE cell

\* The cells of the data rows, the component name first, in row order.
CsvRowCells ==
    LET items == sorted_components(args.csv_mapping)
    IN  [i \in DOMAIN items |-> <<items[i].key>> \o Cells(items[i], args.config, "csv")]

CsvDataLines ==
    LET lines == split(ret.table, <<"\n">>) IN SubSeq(lines, 2, Len(lines))

\* C11: in csv output every cell of every row that begins with '=', the
\* component-name cell included, is emitted in double quotes with its double
\* quotes doubled, and unquoting the field gives back the cell; every other
\* cell is emitted unchanged.
C11_FormulaCellsQuoted ==
    CsvReturned =>
        LET cells == CsvRowCells
            lines == CsvDataLines
        IN  /\ Len(lines) = Len(cells)
            /\ \A i \in DOMAIN cells :
                  /\ lines[i] = join(<<",">>, [k \in DOMAIN cells[i] |-> CsvEmitted(cells[i][k])])
                  /\ \A k \in DOMAIN cells[i] :
                        IsFormula(cells[i][k]) =>
                            CsvFields(CsvEmitted(cells[i][k])) = <<cells[i][k]>>

\* The same statement for the architecture cells alone.
CsvArchCellsQuoted ==
    CsvReturned =>
        LET cells == CsvRowCells
            lines == CsvDataLines
        IN  /\ Len(lines) = Len(cells)
            /\ \A i \in DOMAIN cells :
                  /\ lines[i] = join(<<",">>, <<cells[i][1]>> \o
                                     [k \in 1..4 |-> CsvEmitted(cells[i][k + 1])])
                  /\ \A k \in 2..5 :
                        IsFormula(cells[i][k]) =>
                            CsvFields(CsvEmitted(cells[i][k])) = <<cells[i][k]>>

(***************************************************************************)
(* Claim about the component mapping main builds                           *)
(***************************************************************************)

\* What the i-th located document yields in the run's strategy.
Yielded(i) ==
    IF GitRun
    THEN read_and_parse_from_git(file_paths[i], ContentAt(args.tree, file_paths[i]))
    ELSE parse_pipelinerun(file_paths[i], ContentAt(args.tree, file_paths[i]))

\* The i-th document yielded a non-empty name and a non-empty set.
YieldsEntry(i) ==
    /\ Yielded(i).component_name # None
    /\ Yielded(i).component_name # <<>>
    /\ Yielded(i).architectures # {}

\* The processed documents that yielded an entry of the given name.
YieldersOf(name, n) ==
    {i \in 1..n : YieldsEntry(i) /\ Yielded(i).component_name = name}

\* The names in the mapping, and the set a name maps to.
MappingNames(mapping) == {mapping[i].key : i \in DOMAIN mapping}

MappingAt(mapping, name) ==
    mapping[CHOOSE i \in DOMAIN mapping : mapping[i].key = name].value

\* The located paths are in the ascending order of the run's strategy.
InSortedPathOrder ==
    \A i, j \in DOMAIN file_paths :
        i < j => IF GitRun THEN StrLess(file_paths[i], file_paths[j])
                 ELSE PartsLess(split(file_paths[i], <<"/">>), split(file_paths[j], <<"/">>))

\* After idx documents the mapping holds exactly the names that yielded an
\* entry, each once, with the set of the last document that yielded it.
MappingIsLastWrite ==
    MainRun =>
        /\ idx \in 0..Len(file_paths)
        /\ InSortedPathOrder
        /\ \A i, j \in DOMAIN components : i # j => components[i].key # components[j].key
        /\ MappingNames(components) =
              {Yielded(i).component_name : i \in {k \in 1..idx : YieldsEntry(k)}}
        /\ \A name \in MappingNames(components) :
              MappingAt(components, name) =
                  Yielded(Max(YieldersOf(name, idx))).architectures

\* Processing a document changes no entry other than its own component's.
OnlyOwnEntryChanges ==
    (MainRun /\ idx' = idx + 1) =>
        \A name \in MappingNames(components) \cup MappingNames(components') :
            (~YieldsEntry(idx') \/ name # Yielded(idx').component_name) =>
                /\ name \in MappingNames(components)
                /\ name \in MappingNames(components')
                /\ MappingAt(components', name) = MappingAt(components, name)

\* C12: after processing the located documents in sorted path order, the
\* mapping holds exactly the names of the documents that yielded a non-empty
\* name and a non-empty architecture set, each mapped to the set of the last
\* such document: a later document overwrites, sets are never unioned, and
\* a document changes no entry but its own component's.
C12_MappingKeepsLastDocument ==
    []MappingIsLastWrite /\ [][OnlyOwnEntryChanges]_vars

\* C12 witness: two documents of one component with different sets have been
\* processed, and the written mapping holds the later set, not the union.
C12_Witness ==
    /\ MainRun
    /\ pc = "done"
    /\ \E i, j \in 1..idx :
          /\ i < j
          /\ YieldsEntry(i) /\ YieldsEntry(j)
          /\ Yielded(i).component_name = Yielded(j).component_name
          /\ Yielded(i).architectures \ Yielded(j).architectures # {}
          /\ j = Max(YieldersOf(Yielded(j).component_name, idx))
          /\ MappingAt(components, Yielded(j).component_name) = Yielded(j).architectures
    /\ \E k \in 1..idx : ~YieldsEntry(k)
=============================================================================
